---------------------------- MODULE Spec2Model ----------------------------
(***************************************************************************)
(* A model of src/src/main.rs: the noisy iterated prisoner's dilemma       *)
(* tournament (play_round, play_pair, play_all_pairs), its strategies and  *)
(* the page_rank ranking that main aggregates and sorts.                   *)
(*                                                                         *)
(* Probabilities and uniform draws are modelled on a grid of Unit equal    *)
(* steps: the f64 value k/Unit is the integer k.  A draw of               *)
(* gen_range(0., 1.) is any k in 0..Unit-1, a draw of gen_range(0., 0.5)   *)
(* any k in 0..Half-1.                                                     *)
(***************************************************************************)
EXTENDS Integers, Sequences, FiniteSets, TLC

\* ------------------------------------------------------------------ bounds
Grain == 2          \* grid steps in [0, 0.5)
MaxTurns == 3       \* ROUND_LENGTH in the match specification
MaxRounds == 2      \* NUM_ROUNDS in the match specifications
MainTurns == 1      \* ROUND_LENGTH in the tournament specification
MainRounds == 1     \* NUM_ROUNDS in the tournament specification
MaxPlays == 1       \* PLAYS in the tournament specification
MaxReps == 2        \* REPS in the tournament specification
MaxDelay == 3       \* largest TitForTat delay tried on its own
MaxHist == 3        \* longest history TitForTat is tried on

\* ------------------------------------------------------- program constants
ROUND_LENGTH == 100
ALPHA == 1

Half == Grain             \* the f64 0.5
Unit == 2 * Grain         \* the f64 1.0
Draws == 0 .. (Unit - 1)  \* thread_rng().gen_range(0., 1.)

\* -------------------------------------------------------------------- Move
Cooperate == "Cooperate"
Defect == "Defect"
Move == {Cooperate, Defect}
Panic == "panic"

opposite(m) == IF m = Cooperate THEN Defect ELSE Cooperate

\* (mutant) the draw compared with <= instead of <.
flipInclusive(m, prob, u) ==
    IF ~(0 <= prob) THEN Panic
    ELSE IF ~(Half >= prob) THEN Panic
    ELSE IF u <= prob THEN opposite(m) ELSE m

\* Move::flip: both assertions, then one draw u of gen_range(0., 1.).
flip(m, prob, u) ==
    IF ~(0 <= prob) THEN Panic
    ELSE IF ~(Half >= prob) THEN Panic
    ELSE IF u < prob THEN opposite(m) ELSE m

single_score(m1, m2) ==
    CASE m1 = Cooperate /\ m2 = Cooperate -> <<2, 2>>
      [] m1 = Cooperate /\ m2 = Defect    -> <<0, 3>>
      [] m1 = Defect    /\ m2 = Cooperate -> <<3, 0>>
      [] m1 = Defect    /\ m2 = Defect    -> <<1, 1>>

RECURSIVE SumSeq(_)
SumSeq(s) == IF s = <<>> THEN 0 ELSE Head(s) + SumSeq(Tail(s))

\* --------------------------------------------------------------------- f64
\* An f64 is modelled as an exact fraction <<n, d>> in lowest terms, d > 0;
\* <<0, 0>> is NaN (0/0) and <<1, 0>> is +infinity (x/0, x > 0).  Rounding is
\* not modelled.  No value of the program is negative.
NaN == <<0, 0>>
Infinity == <<1, 0>>
Zero == <<0, 1>>
One == <<1, 1>>

RECURSIVE GCD(_, _)
GCD(a, b) == IF b = 0 THEN a ELSE GCD(b, a % b)

Norm(x) ==
    IF x[2] = 0 THEN (IF x[1] = 0 THEN NaN ELSE Infinity)
    ELSE LET g == GCD(x[1], x[2]) IN <<x[1] \div g, x[2] \div g>>

FromInt(n) == <<n, 1>>      \* n as f64
IsNaN(x) == x = NaN

FMul(x, y) == Norm(<<x[1] * y[1], x[2] * y[2]>>)

FAdd(x, y) ==
    IF IsNaN(x) \/ IsNaN(y) THEN NaN
    ELSE IF x[2] = 0 \/ y[2] = 0 THEN Infinity
    ELSE LET g == GCD(x[2], y[2])
         IN Norm(<<x[1] * (y[2] \div g) + y[1] * (x[2] \div g),
                   x[2] * (y[2] \div g)>>)

\* x / y, with common factors cancelled before multiplying across.
FDiv(x, y) ==
    LET gn == GCD(x[1], y[1])
        gd == GCD(x[2], y[2])
        xn == IF gn = 0 THEN x[1] ELSE x[1] \div gn
        yn == IF gn = 0 THEN y[1] ELSE y[1] \div gn
        xd == IF gd = 0 THEN x[2] ELSE x[2] \div gd
        yd == IF gd = 0 THEN y[2] ELSE y[2] \div gd
    IN Norm(<<xn * yd, xd * yn>>)

\* x <= y and x < y on f64: false when either side is NaN.
FLeq(x, y) == ~IsNaN(x) /\ ~IsNaN(y) /\ x[1] * y[2] <= y[1] * x[2]
FLess(x, y) == ~IsNaN(x) /\ ~IsNaN(y) /\ x[1] * y[2] < y[1] * x[2]

\* x.powf(a) for the exponents 0 and 1.
Powf(x, a) == IF a = 1 THEN x ELSE One

\* iter().sum::<f64>() over a sequence, from 0.0, left to right.
RECURSIVE FSumFrom(_, _)
FSumFrom(acc, v) == IF v = <<>> THEN acc ELSE FSumFrom(FAdd(acc, Head(v)), Tail(v))
FSum(v) == FSumFrom(Zero, v)

\* -------------------------------------------------------------- strategies
Constant(cooperate_prob) ==
    [kind |-> "Constant", cooperate_prob |-> cooperate_prob]
TitForTat(default, delay) ==
    [kind |-> "TitForTat", default |-> default, delay |-> delay]
Threshold(start, coop_thresh) ==
    [kind |-> "Threshold", start |-> start, coop_thresh |-> coop_thresh]

ConstantPlay(p, my_moves, their_noisy_moves, u) ==
    IF u < p.cooperate_prob THEN Cooperate ELSE Defect

\* v[from..]: a slice whose start lies outside 0..len panics.
SliceFrom(v, from) ==
    IF from < 0 \/ from > Len(v) THEN Panic
    ELSE SubSeq(v, from + 1, Len(v))

\* (mutant) the guard written <= instead of <.
TitForTatPlayLate(p, my_moves, their_noisy_moves, u) ==
    IF Len(their_noisy_moves) <= p.delay
    THEN p.default
    ELSE LET window == SliceFrom(their_noisy_moves,
                                 Len(their_noisy_moves) - p.delay)
         IN IF window = Panic THEN Panic
            ELSE IF \E k \in 1 .. Len(window) : window[k] # p.default
                 THEN p.default
                 ELSE opposite(p.default)

TitForTatPlay(p, my_moves, their_noisy_moves, u) ==
    IF Len(their_noisy_moves) < p.delay
    THEN p.default
    ELSE LET window == SliceFrom(their_noisy_moves,
                                 Len(their_noisy_moves) - p.delay)
         IN IF window = Panic THEN Panic
            ELSE IF \E k \in 1 .. Len(window) : window[k] # p.default
                 THEN p.default
                 ELSE opposite(p.default)

\* freq = count as f64 / len as f64; 0/0 is NaN and NaN >= x is false.
ThresholdPlay(p, my_moves, their_noisy_moves, u) ==
    IF Len(their_noisy_moves) < p.start
    THEN Cooperate
    ELSE LET count == Cardinality({k \in 1 .. Len(their_noisy_moves) :
                                      their_noisy_moves[k] = Cooperate})
             len == Len(their_noisy_moves)
         IN IF len # 0 /\ count * Unit >= p.coop_thresh * len
            THEN Cooperate
            ELSE Defect

\* The draws a call of play makes: only Constant::play calls gen_range.
PlayDraws(p) == IF p.kind = "Constant" THEN Draws ELSE {0}

\* Player::play, dispatched on the strategy; u is the draw a Constant uses.
play(p, my_moves, their_noisy_moves, u) ==
    CASE p.kind = "Constant"  -> ConstantPlay(p, my_moves, their_noisy_moves, u)
      [] p.kind = "TitForTat" -> TitForTatPlay(p, my_moves, their_noisy_moves, u)
      [] p.kind = "Threshold" -> ThresholdPlay(p, my_moves, their_noisy_moves, u)


\* ------------------------------------------------------------------- state
VARIABLES
    pc,            \* the statement the program is at
    entry,         \* the function the run starts in: "play_pair" or "main"
    round_length,  \* the value of ROUND_LENGTH in this run
    num_rounds,    \* the value of NUM_ROUNDS in this run
    noise_range,   \* the values gen_range(0., 0.5) returns in this run
    p1, p2,        \* play_pair / play_round: the two players
    res1, res2,    \* play_pair: the per-round results collected so far
    pair_result,   \* play_pair: the returned pair of sums
    prob,          \* play_round: the round's noise level
    moves1, noisy1, score1,
    moves2, noisy2, score2,
    turn,          \* play_round: the loop counter of 0..ROUND_LENGTH
    calls,         \* play_round: per turn of this round, what play returned
                   \* and what flip was given and returned
    args,          \* play_round: the histories passed to the latest play calls
    num_plays,     \* the value of PLAYS in this run
    reps,          \* the value of REPS in this run
    players,       \* main: the roster
    plays_done,    \* main: the loop counter of 0..PLAYS
    overall_ranks, \* main: the summed weights
    ranked,        \* main: players_and_ranks after the sort, as roster indices
    scores, i, j,  \* play_all_pairs: the matrix and the two loop counters
    pair_calls,    \* play_all_pairs: the play_pair calls made, with results
    weights,       \* page_rank: the weight vector
    rep,           \* page_rank: the loop counter of 0..REPS
    weights_sum,   \* page_rank: the latest normalising sum
    tft,           \* a TitForTat tried on its own
    tft_my, tft_their, \* ... the two histories it is given
    tft_out        \* ... and the move it returned

matchVars == <<p1, p2, res1, res2, pair_result>>
roundVars == <<prob, moves1, noisy1, score1, moves2, noisy2, score2, turn,
               calls, args>>
paramVars == <<entry, round_length, num_rounds, noise_range, num_plays, reps>>
mainVars == <<players, plays_done, overall_ranks, ranked>>
pairsVars == <<scores, i, j, pair_calls>>
rankVars == <<weights, rep, weights_sum>>
tftVars == <<tft, tft_my, tft_their, tft_out>>
otherVars == <<mainVars, pairsVars, rankVars, tftVars>>
vars == <<pc, paramVars, matchVars, roundVars, otherVars>>

\* (mutant) the noise level drawn from [0, 1) instead of [0, 0.5).
NoiseLevelsWide == 0 .. (Unit - 1)

\* gen_range(0., 0.5): the half-open range [0, 0.5) on the grid.
NoiseLevels == 0 .. (Half - 1)

\* The strategies a match is played between: the shapes of main's roster,
\* with parameters the grid and MaxTurns reach.
Catalogue ==
    { Constant(0), Constant(Unit),
      TitForTat(Cooperate, 1), TitForTat(Defect, 2),
      Threshold(2, Half) }

\* -------------------------------------------------------------- play_round
NoArgs == [my1 |-> <<>>, their1 |-> <<>>, my2 |-> <<>>, their2 |-> <<>>]

\* let prob = gen_range(0., 0.5); the six locals start empty or zero.
PlayRoundEnter ==
    /\ pc = "play_pair"
    /\ Len(res1) < num_rounds
    /\ \E noise \in noise_range : prob' = noise
    /\ moves1' = <<>> /\ noisy1' = <<>> /\ score1' = 0
    /\ moves2' = <<>> /\ noisy2' = <<>> /\ score2' = 0
    /\ turn' = 0
    /\ calls' = <<>>
    /\ args' = NoArgs
    /\ pc' = "play_round"
    /\ UNCHANGED <<paramVars, matchVars, otherVars>>

\* (mutant) the payoff computed from the clean moves.
TurnScoreClean(move1, move2, noise1, noise2) == single_score(move1, move2)

\* The payoff of one turn.
TurnScore(move1, move2, noise1, noise2) == single_score(noise1, noise2)

\* (mutant) a player's own history records its flipped move.
PushHistoriesNoisy(move1, move2, noise1, noise2) ==
    << Append(moves1, noise1), Append(moves2, noise2),
       Append(noisy1, noise1), Append(noisy2, noise2) >>

\* The four pushes that end the loop body: <<moves1, moves2, noisy1, noisy2>>.
PushHistories(move1, move2, noise1, noise2) ==
    << Append(moves1, move1), Append(moves2, move2),
       Append(noisy1, noise1), Append(noisy2, noise2) >>

\* One pass of the loop body; u1, u2 are the draws of the two play calls,
\* f1, f2 the draws of the two flip calls.
Turn ==
    /\ pc = "play_round"
    /\ turn < round_length
    /\ \E u1 \in PlayDraws(p1), u2 \in PlayDraws(p2), f1, f2 \in Draws :
        LET move1 == play(p1, moves1, noisy2, u1)
            move2 == play(p2, moves2, noisy1, u2)
            noise1 == flip(move1, prob, f1)
            noise2 == flip(move2, prob, f2)
            failed == Panic \in {move1, move2, noise1, noise2}
            ss == TurnScore(move1, move2, noise1, noise2)
            pushed == PushHistories(move1, move2, noise1, noise2)
            passed == [ my1 |-> moves1, their1 |-> noisy2,
                        my2 |-> moves2, their2 |-> noisy1 ]
            call == [ ret1 |-> move1, ret2 |-> move2,
                      flip_in1 |-> move1, flip_prob1 |-> prob, flip_out1 |-> noise1,
                      flip_in2 |-> move2, flip_prob2 |-> prob, flip_out2 |-> noise2 ]
        IN IF failed
           THEN /\ pc' = Panic
                /\ UNCHANGED roundVars
           ELSE /\ score1' = score1 + ss[1]
                /\ score2' = score2 + ss[2]
                /\ moves1' = pushed[1]
                /\ moves2' = pushed[2]
                /\ noisy1' = pushed[3]
                /\ noisy2' = pushed[4]
                /\ turn' = turn + 1
                /\ calls' = Append(calls, call)
                /\ args' = passed
                /\ pc' = "play_round"
                /\ UNCHANGED prob
    /\ UNCHANGED <<paramVars, matchVars, otherVars>>

\* (score1, score2) is returned to play_pair's map, which collects it.
PlayRoundReturn ==
    /\ pc = "play_round"
    /\ turn = round_length
    /\ res1' = Append(res1, score1)
    /\ res2' = Append(res2, score2)
    /\ pc' = "play_pair"
    /\ UNCHANGED <<paramVars, p1, p2, pair_result, roundVars, otherVars>>

\* --------------------------------------------------------------- play_pair
PlayPairReturn ==
    /\ pc = "play_pair"
    /\ Len(res1) = num_rounds
    /\ pair_result' = <<SumSeq(res1), SumSeq(res2)>>
    /\ pc' = "play_pair_returned"
    /\ UNCHANGED <<paramVars, p1, p2, res1, res2, roundVars, otherVars>>

\* ---------------------------------------------------- match specification
\* One call play_pair(p1, p2) on two strategies of the catalogue.
IdleRound ==
    /\ prob = 0
    /\ moves1 = <<>> /\ noisy1 = <<>> /\ score1 = 0
    /\ moves2 = <<>> /\ noisy2 = <<>> /\ score2 = 0
    /\ turn = 0
    /\ calls = <<>>
    /\ args = NoArgs

IdleMatch ==
    /\ p1 = Constant(0) /\ p2 = Constant(0)
    /\ res1 = <<>> /\ res2 = <<>>
    /\ pair_result = <<0, 0>>

IdleMain ==
    /\ num_plays = 0 /\ reps = 0
    /\ players = <<>>
    /\ plays_done = 0
    /\ overall_ranks = <<>>
    /\ ranked = <<>>
    /\ scores = <<>> /\ i = 0 /\ j = 0
    /\ pair_calls = <<>>
    /\ weights = <<>> /\ rep = 0 /\ weights_sum = Zero

IdleTft ==
    /\ tft = TitForTat(Cooperate, 0)
    /\ tft_my = <<>> /\ tft_their = <<>>
    /\ tft_out = Cooperate

Init ==
    /\ entry = "play_pair"
    /\ round_length = MaxTurns
    /\ num_rounds = MaxRounds
    /\ noise_range = NoiseLevels
    /\ p1 \in Catalogue /\ p2 \in Catalogue
    /\ res1 = <<>> /\ res2 = <<>>
    /\ pair_result = <<0, 0>>
    /\ IdleRound
    /\ IdleMain
    /\ IdleTft
    /\ pc = "play_pair"

Next ==
    \/ PlayRoundEnter
    \/ Turn
    \/ PlayRoundReturn
    \/ PlayPairReturn

Spec == Init /\ [][Next]_vars


\* ------------------------------------------------------------ round claims
InRound == pc \in {"play_round", "play_pair", "play_pair_returned"}

\* C1: at every turn t of every round each play call receives (own clean
\* history, opponent's noisy history), both of length exactly t (so empty at
\* turn 0 of every round); entry k of a clean history is the move play
\* returned at turn k, and entry k of the noisy history is the result of flip
\* on that same move.  (args holds what the play calls of turn - 1, the
\* latest turn, were passed: every call is the latest one in the state that
\* follows it.)
C1_HistoriesCleanAndNoisy ==
    InRound =>
      /\ Len(calls) = turn
      /\ Len(moves1) = turn /\ Len(moves2) = turn
      /\ Len(noisy1) = turn /\ Len(noisy2) = turn
      /\ turn = 0 => args = NoArgs
      /\ turn > 0 =>
           /\ Len(args.my1) = turn - 1 /\ Len(args.their1) = turn - 1
           /\ Len(args.my2) = turn - 1 /\ Len(args.their2) = turn - 1
           /\ args.my1 = SubSeq(moves1, 1, turn - 1)
           /\ args.their1 = SubSeq(noisy2, 1, turn - 1)
           /\ args.my2 = SubSeq(moves2, 1, turn - 1)
           /\ args.their2 = SubSeq(noisy1, 1, turn - 1)
      /\ \A k \in 1 .. Len(calls) :
           LET c == calls[k] IN
           /\ moves1[k] = c.ret1 /\ moves2[k] = c.ret2
           /\ c.flip_in1 = c.ret1 /\ c.flip_in2 = c.ret2
           /\ noisy1[k] = c.flip_out1 /\ noisy2[k] = c.flip_out2

\* A later round of a match, two turns in, where a flip changed a move.
C1_Witness ==
    /\ pc = "play_round"
    /\ Len(res1) >= 1
    /\ turn >= 2
    /\ args.my1 # args.their2
    /\ noisy1 # moves1
    /\ noisy2 = moves2

RECURSIVE PayoffSum(_, _, _)
PayoffSum(h1, h2, side) ==
    IF h1 = <<>> THEN 0
    ELSE single_score(Head(h1), Head(h2))[side] + PayoffSum(Tail(h1), Tail(h2), side)

\* C2: after every turn the running scores equal the payoff sum over the
\* noisy histories recorded so far, and the pair play_round returns is that
\* sum over all the round's turns.
C2_ScoreFromNoisyMoves ==
    InRound =>
      /\ score1 = PayoffSum(noisy1, noisy2, 1)
      /\ score2 = PayoffSum(noisy1, noisy2, 2)
      /\ (pc # "play_round" /\ res1 # <<>>) =>
           /\ Len(noisy1) = round_length
           /\ res1[Len(res1)] = PayoffSum(noisy1, noisy2, 1)
           /\ res2[Len(res2)] = PayoffSum(noisy1, noisy2, 2)

\* A returned round whose noisy payoff differs from the clean moves' payoff.
C2_Witness ==
    /\ pc = "play_pair"
    /\ Len(res1) = 1
    /\ PayoffSum(moves1, moves2, 1) # PayoffSum(noisy1, noisy2, 1)
    /\ res1[1] = PayoffSum(noisy1, noisy2, 1)

\* C5: every flip call receives the round's noise level, which lies in
\* [0, 0.5], so neither assertion of flip fails.
C5_FlipProbInRange ==
    /\ pc # Panic
    /\ InRound =>
         /\ 0 <= prob /\ prob < Half
         /\ \A k \in 1 .. Len(calls) :
              /\ calls[k].flip_prob1 = prob /\ calls[k].flip_prob2 = prob
              /\ 0 <= calls[k].flip_prob1 /\ calls[k].flip_prob1 <= Half

\* A round at a non-zero noise level in which both flips have been called.
C5_Witness ==
    /\ pc = "play_round"
    /\ prob > 0
    /\ Len(calls) = round_length
    /\ calls[1].flip_out1 # calls[1].flip_in1


\* ------------------------------------------------ noise-free specification
\* play_pair with rounds of the full ROUND_LENGTH, in runs where every noise
\* level drawn is 0.
InitNoNoise ==
    /\ entry = "play_pair"
    /\ round_length = ROUND_LENGTH
    /\ num_rounds = MaxRounds
    /\ noise_range = {0}
    /\ p1 \in Catalogue /\ p2 \in Catalogue
    /\ res1 = <<>> /\ res2 = <<>>
    /\ pair_result = <<0, 0>>
    /\ IdleRound
    /\ IdleMain
    /\ IdleTft
    /\ pc = "play_pair"

SpecNoNoise == InitNoNoise /\ [][Next]_vars

\* C3: at noise level 0 flip never changes a move, so the noisy histories
\* equal the clean ones; a 100-turn round between two Constant(1.0) returns
\* (200, 200) and between two Constant(0.0) returns (100, 100), whatever the
\* draws.
C3_ZeroNoiseRound ==
    /\ pc # Panic
    /\ (InRound /\ prob = 0) =>
         /\ noisy1 = moves1 /\ noisy2 = moves2
         /\ (pc # "play_round" /\ res1 # <<>> /\ round_length = 100) =>
              /\ (p1 = Constant(Unit) /\ p2 = Constant(Unit)) =>
                   <<res1[Len(res1)], res2[Len(res2)]>> = <<200, 200>>
              /\ (p1 = Constant(0) /\ p2 = Constant(0)) =>
                   <<res1[Len(res1)], res2[Len(res2)]>> = <<100, 100>>

\* A finished 100-turn round between two always-cooperating strategies.
C3_Witness ==
    /\ pc = "play_pair"
    /\ p1 = Constant(Unit) /\ p2 = Constant(Unit)
    /\ prob = 0
    /\ Len(moves1) = 100
    /\ res1 = <<200>> /\ res2 = <<200>>


\* ------------------------------------------------- TitForTat specification
\* TitForTat::play applied once to every strategy and pair of histories
\* within the bounds.
RECURSIVE SeqsUpTo(_, _)
SeqsUpTo(S, n) ==
    IF n = 0 THEN {<<>>}
    ELSE LET shorter == SeqsUpTo(S, n - 1)
         IN shorter \cup {Append(h, m) : h \in {x \in shorter : Len(x) = n - 1}, m \in S}

TftCall ==
    /\ pc = "tft_call"
    /\ \E u \in PlayDraws(tft) : tft_out' = play(tft, tft_my, tft_their, u)
    /\ pc' = "tft_returned"
    /\ UNCHANGED <<paramVars, matchVars, roundVars, mainVars, pairsVars, rankVars,
                   tft, tft_my, tft_their>>

InitTft ==
    /\ entry = "TitForTat::play"
    /\ round_length = 0 /\ num_rounds = 0 /\ noise_range = {}
    /\ IdleMatch
    /\ IdleRound
    /\ IdleMain
    /\ tft \in {TitForTat(default, delay) : default \in Move, delay \in 0 .. MaxDelay}
    /\ tft_my \in SeqsUpTo(Move, MaxHist)
    /\ tft_their \in SeqsUpTo(Move, MaxHist)
    /\ tft_out = Cooperate
    /\ pc = "tft_call"

SpecTft == InitTft /\ [][TftCall]_vars

\* C9: TitForTat(default, delay) on the opponent's noisy history h plays
\* default when len(h) < delay; otherwise opposite(default) when each of the
\* last delay entries of h equals default (always so when delay = 0) and
\* default when one of them differs; its own history plays no part and no
\* index falls outside h.
C9_TitForTatPlay ==
    pc = "tft_returned" =>
      LET h == tft_their
          n == Len(h)
          other == IF tft.default = Cooperate THEN Defect ELSE Cooperate
      IN /\ tft_out \in Move
         /\ n < tft.delay => tft_out = tft.default
         /\ (n >= tft.delay /\ \A k \in (n - tft.delay + 1) .. n : h[k] = tft.default)
               => tft_out = other
         /\ (n >= tft.delay /\ \E k \in (n - tft.delay + 1) .. n : h[k] # tft.default)
               => tft_out = tft.default

\* A call whose window is the whole history, all of it equal to default,
\* with an own history that differs from the opponent's.
C9_Witness ==
    /\ pc = "tft_returned"
    /\ tft.delay = 2
    /\ tft_their = <<tft.default, tft.default>>
    /\ tft_my = <<Defect>>
    /\ tft_out # tft.default


\* ---------------------------------------------------------- play_all_pairs
\* n = players.len(); the loop counters i and j count from 0 as in the code,
\* while sequences are indexed from 1.
NumPlayers == Len(players)

\* main's loop body starts: let scores = play_all_pairs(&players), whose
\* matrix starts as vec![vec![0; n]; n].
PlayAllPairsEnter ==
    /\ pc = "main"
    /\ plays_done < num_plays
    /\ scores' = [a \in 1 .. NumPlayers |-> [b \in 1 .. NumPlayers |-> 0]]
    /\ i' = 0 /\ j' = 0
    /\ pair_calls' = <<>>
    /\ pc' = "play_all_pairs"
    /\ UNCHANGED <<paramVars, matchVars, roundVars, mainVars, rankVars, tftVars>>

\* The call play_pair(players[i], players[j]) of the inner loop body.
PlayPairEnter ==
    /\ pc = "play_all_pairs"
    /\ i < NumPlayers
    /\ j < i + 1
    /\ p1' = players[i + 1]
    /\ p2' = players[j + 1]
    /\ res1' = <<>> /\ res2' = <<>>
    /\ pc' = "play_pair"
    /\ UNCHANGED <<paramVars, pair_result, roundVars, otherVars>>

\* (mutant) the mirrored cell written first.
StoredScoresMirrorFirst(p1_score, p2_score) ==
    LET first == [scores EXCEPT ![j + 1][i + 1] = p2_score]
    IN [first EXCEPT ![i + 1][j + 1] = p1_score]

\* (mutant) both cells given the first seat's total.
StoredScoresSameSeat(p1_score, p2_score) ==
    LET first == [scores EXCEPT ![i + 1][j + 1] = p1_score]
    IN [first EXCEPT ![j + 1][i + 1] = p1_score]

\* scores[i][j] = p1_score; scores[j][i] = p2_score; in this order.
StoredScores(p1_score, p2_score) ==
    LET first == [scores EXCEPT ![i + 1][j + 1] = p1_score]
    IN [first EXCEPT ![j + 1][i + 1] = p2_score]

\* play_pair has returned to play_all_pairs: the two stores, then the next
\* j of 0..i + 1, or the next i.
StoreScores ==
    /\ pc = "play_pair_returned"
    /\ entry = "main"
    /\ scores' = StoredScores(pair_result[1], pair_result[2])
    /\ pair_calls' = Append(pair_calls, [i |-> i, j |-> j, result |-> pair_result])
    /\ IF j + 1 < i + 1
       THEN i' = i /\ j' = j + 1
       ELSE i' = i + 1 /\ j' = 0
    /\ pc' = "play_all_pairs"
    /\ UNCHANGED <<paramVars, matchVars, roundVars, mainVars, rankVars, tftVars>>

\* --------------------------------------------------------------- page_rank
\* play_all_pairs returns scores and page_rank(&scores) starts from
\* weights = vec![1.; n].
PageRankEnter ==
    /\ pc = "play_all_pairs"
    /\ i = NumPlayers
    /\ weights' = [k \in 1 .. NumPlayers |-> One]
    /\ rep' = 0
    /\ weights_sum' = Zero
    /\ pc' = "page_rank"
    /\ UNCHANGED <<paramVars, matchVars, roundVars, mainVars, pairsVars, tftVars>>

\* weight * sum over the row of (s as f64 * w).powf(ALPHA)
UnnormWeights ==
    [k \in 1 .. Len(scores) |->
        FMul(weights[k],
             FSum([m \in 1 .. Len(scores[k]) |->
                      Powf(FMul(FromInt(scores[k][m]), weights[m]), ALPHA)]))]

\* One pass of the loop body.
PageRankIterate ==
    /\ pc = "page_rank"
    /\ rep < reps
    /\ LET unnorm_weights == UnnormWeights
           sum == FSum(unnorm_weights)
       IN /\ weights_sum' = sum
          /\ weights' = [k \in 1 .. Len(unnorm_weights) |->
                            FDiv(unnorm_weights[k], sum)]
    /\ rep' = rep + 1
    /\ pc' = "page_rank"
    /\ UNCHANGED <<paramVars, matchVars, roundVars, mainVars, pairsVars, tftVars>>

\* -------------------------------------------------------------------- main
\* page_rank returns weights; main adds them to overall_ranks.
PageRankReturn ==
    /\ pc = "page_rank"
    /\ rep = reps
    /\ overall_ranks' = [k \in 1 .. Len(overall_ranks) |->
                            FAdd(overall_ranks[k], weights[k])]
    /\ plays_done' = plays_done + 1
    /\ pc' = "main"
    /\ UNCHANGED <<paramVars, matchVars, roundVars, players, ranked,
                   pairsVars, rankVars, tftVars>>

\* sort_by(|a, b| b.1.partial_cmp(&a.1).unwrap()): a stable sort, descending.
\* The roster indices with the k-th before the m-th iff its rank is larger,
\* or equal and k < m.
Before(k, m) ==
    \/ FLess(overall_ranks[m], overall_ranks[k])
    \/ overall_ranks[m] = overall_ranks[k] /\ k < m

SortedRanks ==
    [pos \in 1 .. NumPlayers |->
        CHOOSE k \in 1 .. NumPlayers :
            Cardinality({m \in 1 .. NumPlayers : Before(m, k)}) = pos - 1]

\* partial_cmp is None when either side is NaN, and unwrap then panics; a
\* slice of fewer than two elements is sorted without any comparison.
SortPanics ==
    /\ NumPlayers >= 2
    /\ \E k \in 1 .. NumPlayers : IsNaN(overall_ranks[k])

Sort ==
    /\ pc = "main"
    /\ plays_done = num_plays
    /\ IF SortPanics
       THEN pc' = Panic /\ UNCHANGED ranked
       ELSE pc' = "done" /\ ranked' = SortedRanks
    /\ UNCHANGED <<paramVars, matchVars, roundVars, players, plays_done,
                   overall_ranks, pairsVars, rankVars, tftVars>>

\* ------------------------------------------------ tournament specification
\* main on a roster of one, two or three strategies.
Rosters ==
    { <<Constant(Half)>>,
      <<TitForTat(Cooperate, 1), Constant(0)>>,
      <<Threshold(1, Half), TitForTat(Defect, 1), Constant(Unit)>> }

InitMain ==
    /\ entry = "main"
    /\ round_length = MainTurns
    /\ num_rounds = MainRounds
    /\ noise_range = NoiseLevels
    /\ num_plays = MaxPlays
    /\ reps = MaxReps
    /\ players \in Rosters
    /\ plays_done = 0
    /\ overall_ranks = [k \in 1 .. Len(players) |-> Zero]
    /\ ranked = <<>>
    /\ scores = <<>> /\ i = 0 /\ j = 0
    /\ pair_calls = <<>>
    /\ weights = <<>> /\ rep = 0 /\ weights_sum = Zero
    /\ IdleMatch
    /\ IdleRound
    /\ IdleTft
    /\ pc = "main"

NextMain ==
    \/ PlayAllPairsEnter
    \/ PlayPairEnter
    \/ PlayRoundEnter
    \/ Turn
    \/ PlayRoundReturn
    \/ PlayPairReturn
    \/ StoreScores
    \/ PageRankEnter
    \/ PageRankIterate
    \/ PageRankReturn
    \/ Sort

SpecMain == InitMain /\ [][NextMain]_vars


\* ------------------------------------------------------- tournament claims
\* play_all_pairs has returned and scores still holds the latest trial's
\* matrix.
PairsReturned ==
    /\ entry = "main"
    /\ \/ pc \in {"page_rank", "done", Panic}
       \/ pc = "main" /\ plays_done > 0

SamePair(c, a, b) == {c.i, c.j} = {a, b}

\* C4: play_all_pairs calls play_pair exactly once for each unordered pair
\* {i, j}, i = j included, n(n+1)/2 calls in all; for i # j the cells
\* scores[i][j] and scores[j][i] hold the two sides' totals of that one call,
\* and every cell of the matrix is written by some call.
C4_OneCallPerPairMirrored ==
    entry = "main" =>
      /\ \A q \in 1 .. Len(pair_calls) :
           LET c == pair_calls[q] IN
           /\ c.j <= c.i /\ c.i < NumPlayers
           /\ c.i # c.j =>
                /\ scores[c.i + 1][c.j + 1] = c.result[1]
                /\ scores[c.j + 1][c.i + 1] = c.result[2]
           /\ \A r \in 1 .. Len(pair_calls) :
                SamePair(pair_calls[r], c.i, c.j) => r = q
      /\ PairsReturned =>
           /\ 2 * Len(pair_calls) = NumPlayers * (NumPlayers + 1)
           /\ \A a, b \in 0 .. (NumPlayers - 1) :
                \E q \in 1 .. Len(pair_calls) : SamePair(pair_calls[q], a, b)

\* A finished matrix of three strategies whose mirrored cells differ.
C4_Witness ==
    /\ PairsReturned
    /\ NumPlayers = 3
    /\ Len(pair_calls) = 6
    /\ scores[3][1] # scores[1][3]
    /\ scores[3][2] # scores[2][3]

\* C10: a self-play match leaves the second seat's total in scores[i][i];
\* after play_all_pairs returns every diagonal entry is the second seat's
\* total of that strategy's self-play call.
C10_DiagonalIsSecondSeat ==
    entry = "main" =>
      /\ \A q \in 1 .. Len(pair_calls) :
           LET c == pair_calls[q] IN
           c.i = c.j => scores[c.i + 1][c.i + 1] = c.result[2]
      /\ PairsReturned =>
           \A a \in 0 .. (NumPlayers - 1) :
              \E q \in 1 .. Len(pair_calls) :
                 /\ pair_calls[q].i = a /\ pair_calls[q].j = a
                 /\ scores[a + 1][a + 1] = pair_calls[q].result[2]

\* A finished matrix with a self-play call whose two seats' totals differ.
C10_Witness ==
    /\ PairsReturned
    /\ \E q \in 1 .. Len(pair_calls) :
         LET c == pair_calls[q] IN
         /\ c.i = c.j
         /\ c.result[1] # c.result[2]
         /\ scores[c.i + 1][c.i + 1] = c.result[2]
         /\ scores[c.i + 1][c.i + 1] # c.result[1]

\* C6: after every completed iteration of page_rank the weights sum to 1.
C6_WeightsSumToOne ==
    (entry = "main" /\ pc = "page_rank" /\ rep >= 1) => FSum(weights) = One

ZeroRow(k) == \A m \in 1 .. Len(scores[k]) : scores[k][m] = 0

\* C7: the weight of a strategy whose row of scores is all zeros never
\* increases from one iteration of page_rank to the next and, once 0, stays 0.
C7_ZeroRowWeightDecays ==
    [][ (pc = "page_rank" /\ pc' = "page_rank" /\ rep' = rep + 1) =>
          \A k \in 1 .. Len(scores) :
             ZeroRow(k) =>
               /\ FLeq(weights'[k], weights[k])
               /\ weights[k] = Zero => weights'[k] = Zero ]_vars

\* C8: nothing after the noise-range check fails: the normalising sum of
\* every iteration of page_rank is non-zero, and every weight main sorts is
\* an ordinary comparable number.
C8_RankingNeverFails ==
    /\ pc # Panic
    /\ (entry = "main" /\ pc = "page_rank" /\ rep >= 1) =>
         (weights_sum # Zero /\ ~IsNaN(weights_sum))
    /\ entry = "main" =>
         \A k \in 1 .. Len(overall_ranks) : ~IsNaN(overall_ranks[k])

=============================================================================
